---- MODULE Spec2Model ----
(***************************************************************************)
(* Model of the dailypapers-ai podcast pipeline: the orchestration in      *)
(* src/main.py and the five stage modules it wires together.  A run is one *)
(* call of an entry point: the pipeline itself, or one of the stage        *)
(* functions called on its own.  The external collaborators (arXiv, the    *)
(* Gemini models, ffmpeg, YouTube, the file system) answer                 *)
(* nondeterministically.                                                   *)
(***************************************************************************)
EXTENDS Integers, Sequences, FiniteSets, TLC

\* ------------------------------------------------------------------ bounds
MaxChunks == 3
MaxTitleLen == 100
MaxScriptLen == 2
MaxResults == 2
\* Calls of next_chunk the platform may need before it answers an upload.
MaxPolls == 2

\* ------------------------------------------------------- program constants
\* youtube_uploader.py:28  max_chars = 85
max_chars == 85
\* youtube_uploader.py:30  paper_title[:80]
TruncateAt == 80

\* Characters are integers: 0 is the blank, a positive number is a
\* non-blank character of an input text, a negative one a character of a
\* literal of the program.
Space == 0
Dot == -1

VARIABLES
    entry,              \* the function this run calls
    pc,                 \* control location
    settings,           \* attribute names of the settings object
    paper_date_valid,   \* whether settings.paper_date is an ISO date
    fs,                 \* the files of assets/ and data/
    exitCode,           \* process exit status once pc = "exited"
    error,              \* the exception that ended the run, "none" if none
    logs,               \* log records written so far (the ones that matter)
    events,             \* history: stage starts/ends and external calls
    best_paper,         \* find_and_download_paper: the selected URL
    paper,              \* the paper metadata returned by stage 1
    script_response,    \* history: response.text of the script model
    podcast_script,     \* the script returned by stage 2
    consumed,           \* history: the chunks the speech stream has yielded
    full_audio_data,    \* _process_audio_stream accumulator
    received_mime_type, \* _process_audio_stream retained MIME type
    temp_suffix,        \* suffix of temp_raw_audio_path
    audio_result,       \* value returned by generate_audio_from_script
    title               \* upload title built by upload_video_to_youtube

vars == <<entry, pc, settings, paper_date_valid, fs, exitCode, error, logs,
          events, best_paper, paper, script_response, podcast_script,
          consumed, full_audio_data, received_mime_type, temp_suffix,
          audio_result, title>>

\* ------------------------------------------------------------------- text
RECURSIVE LStrip(_)
LStrip(s) == IF s # <<>> /\ Head(s) = Space THEN LStrip(Tail(s)) ELSE s

RECURSIVE RStrip(_)
RStrip(s) ==
    IF s # <<>> /\ s[Len(s)] = Space THEN RStrip(SubSeq(s, 1, Len(s) - 1)) ELSE s

\* str.strip()
Strip(s) == RStrip(LStrip(s))

\* s[:n]
Prefix(s, n) == SubSeq(s, 1, IF Len(s) < n THEN Len(s) ELSE n)

Spaces(k) == [i \in 1..k |-> Space]

\* All sequences over S of length at most n.
SeqsUpTo(S, n) == UNION {[1..k -> S] : k \in 0..n}

\* ------------------------------------------------------------ file system
Bg == "assets/background.png"
PaperPdf == "data/paper.pdf"
ScriptTxt == "data/podcast_script.txt"
Wav == "data/podcast.wav"
Temp == "data/temp_raw_audio"
Mp3 == "data/podcast.mp3"
Mp4 == "data/podcast.mp4"
Files == {Bg, PaperPdf, ScriptTxt, Wav, Temp, Mp3, Mp4}

NoFile == [exists |-> FALSE, origin |-> "none", data |-> <<>>]
File(origin, data) == [exists |-> TRUE, origin |-> origin, data |-> data]
Leftover == File("leftover", <<>>)

\* The first four bytes of a PDF, "%PDF", and of an HTML error page.
PdfMagic == <<37, 80, 68, 70>>
HtmlHead == <<60, 104, 116, 109>>

\* --------------------------------------------------------------- settings
\* Settings: the fields and properties the class declares.
SettingsFields ==
    {"log_level", "gemini_api_key", "script_model", "tts_model", "paper_date",
     "youtube_refresh_token", "youtube_client_id", "youtube_client_secret",
     "youtube_video_privacy_status", "paper_date_parsed"}

\* The attributes podcast_generation_pipeline and the uploader read from the
\* settings object they are passed.
PipelineReads ==
    {"paper_date_parsed", "gemini_paper_selector_model", "gemini_api_key",
     "gemini_script_generator_model", "gemini_tts_model",
     "youtube_refresh_token", "youtube_client_id", "youtube_client_secret",
     "youtube_video_privacy_status"}

\* ------------------------------------------------------------------ stages
Entries ==
    {"main", "find_and_download_paper", "generate_script_from_paper",
     "generate_audio_from_script", "compose_final_podcast_video",
     "upload_video_to_youtube"}

NoPaper == [present |-> FALSE, lead |-> 0, n |-> 0, trail |-> 0, payload |-> <<>>]
NoText == [none |-> TRUE, chars |-> <<>>]
Text(s) == [none |-> FALSE, chars |-> s]

\* paper.title as returned by arXiv: blanks, n non-blank-bounded characters
\* (character i is the number i), blanks.
RawTitle(p) == Spaces(p.lead) \o [i \in 1..p.n |-> i] \o Spaces(p.trail)

Papers ==
    {[present |-> TRUE, lead |-> l, n |-> n, trail |-> t, payload |-> b] :
        l \in 0..1, n \in 0..MaxTitleLen, t \in 0..1, b \in {PdfMagic, HtmlHead}}

\* The papers a download returns in this model: a short title, one of
\* max_chars characters and one of the greatest length, as a PDF and as
\* an HTML page.
DownloadedPapers ==
    {p \in Papers : p.lead = 0 /\ p.trail = 0 /\ p.n \in {1, max_chars, MaxTitleLen}}

\* ---------------------------------------------------------------- control
inputV == <<entry, settings, paper_date_valid>>
scriptV == <<script_response, podcast_script>>
paperV == <<best_paper, paper>>
audioV == <<consumed, full_audio_data, received_mime_type, temp_suffix,
            audio_result>>

NoError == [type |-> "none", msg |-> "", detail |-> ""]
Err(type, msg, detail) == [type |-> type, msg |-> msg, detail |-> detail]

\* Continue at location p, having recorded the events evs and the log
\* records lg.
Goto(p, evs, lg) ==
    /\ pc' = p
    /\ events' = events \o evs
    /\ logs' = logs \cup lg
    /\ UNCHANGED <<exitCode, error>>

\* sys.exit(1) after logger.critical, the log records lg written before it.
ExitWith(evs, lg) ==
    /\ pc' = "exited"
    /\ exitCode' = 1
    /\ events' = events \o evs
    /\ logs' = logs \cup lg \cup {"critical"}
    /\ UNCHANGED error

Exit1(evs) == ExitWith(evs, {})

\* Mutant of Raise: the pipeline's handler logs the exception and returns
\* instead of exiting.
RaiseWithoutExit(err, evs) ==
    /\ error' = err
    /\ events' = events \o evs
    /\ IF entry = "main"
       THEN pc' = "done" /\ logs' = logs \cup {"unexpected_error"} /\ UNCHANGED exitCode
       ELSE pc' = "raised" /\ UNCHANGED <<exitCode, logs>>

\* An exception leaves a stage function.  Inside the pipeline every stage
\* is called within the try block, whose handler logs and exits with
\* status 1; a stage called on its own raises to its caller.
Raise(err, evs) ==
    /\ error' = err
    /\ events' = events \o evs
    /\ IF entry = "main"
       THEN pc' = "exited" /\ exitCode' = 1 /\ logs' = logs \cup {"unexpected_error"}
       ELSE pc' = "raised" /\ UNCHANGED <<exitCode, logs>>

\* ------------------------------------------------------------------- Init
RelevantFiles(e) ==
    CASE e = "main" -> {Bg, PaperPdf, Wav, Mp3, Mp4}
      [] e = "find_and_download_paper" -> {PaperPdf}
      [] e = "generate_script_from_paper" -> {PaperPdf}
      [] e = "generate_audio_from_script" -> {Wav}
      [] e = "compose_final_podcast_video" -> {Bg, Wav, Mp3, Mp4}
      [] e = "upload_video_to_youtube" -> {Mp4}

\* What an earlier run left behind: data/paper.pdf was a PDF.
LeftoverOf(f) == IF f = PaperPdf THEN File("leftover", PdfMagic) ELSE Leftover

InitialFs(e) ==
    {f \in [Files -> {NoFile, Leftover, File("leftover", PdfMagic)}] :
        \A x \in Files :
            /\ f[x] \in {NoFile, LeftoverOf(x)}
            /\ x \notin RelevantFiles(e) => f[x] = NoFile}

EntryPc(e) ==
    CASE e = "main" -> "main_start"
      [] e = "find_and_download_paper" -> "get_abstracts"
      [] e = "generate_script_from_paper" -> "generate_script"
      [] e = "generate_audio_from_script" -> "tts_call"
      [] e = "compose_final_podcast_video" -> "compose_mp3"
      [] e = "upload_video_to_youtube" -> "upload"

Init ==
    /\ entry \in Entries
    /\ pc = EntryPc(entry)
    /\ settings \in (IF entry = "main" THEN {SettingsFields, PipelineReads}
                                      ELSE {SettingsFields})
    /\ paper_date_valid \in (IF entry = "main" THEN BOOLEAN ELSE {TRUE})
    /\ fs \in InitialFs(entry)
    /\ exitCode = 0
    /\ error = NoError
    /\ logs = {}
    /\ events = <<>>
    /\ best_paper = "none"
    /\ paper \in (IF entry = "upload_video_to_youtube" THEN Papers ELSE {NoPaper})
    /\ script_response = NoText
    /\ podcast_script = (IF entry = "generate_audio_from_script"
                         THEN Text(<<1>>) ELSE NoText)
    /\ consumed = <<>>
    /\ full_audio_data = <<>>
    /\ received_mime_type = "none"
    /\ temp_suffix = ""
    /\ audio_result = "none"
    /\ title = <<>>

\* ------------------------------------------------- main.py: the pipeline
\* main.py:23-28
CheckBackgroundImage ==
    /\ pc = "main_start"
    /\ IF ~fs[Bg].exists
       THEN Exit1(<<"fail:background">>)
       ELSE Goto("setup", <<>>, {})
    /\ UNCHANGED <<inputV, fs, paperV, scriptV, audioV, title>>

\* main.py:30-33.  date.fromisoformat runs before the try block: a bad
\* PAPER_DATE is an uncaught ValueError, and the interpreter exits with 1.
SetUp ==
    /\ pc = "setup"
    /\ IF "paper_date_parsed" \notin settings \/ ~paper_date_valid
       THEN /\ pc' = "exited"
            /\ exitCode' = 1
            /\ error' = Err("ValueError", "uncaught", "")
            /\ events' = events \o <<"fail:setup">>
            /\ UNCHANGED logs
       ELSE Goto("call_paper", <<>>, {})
    /\ UNCHANGED <<inputV, fs, paperV, scriptV, audioV, title>>

\* A read of settings.<attr> inside the try block.
HasAttr(attr) == attr \in settings
AttributeError(attr) == Err("AttributeError", attr, "")

\* main.py:36-40
CallFindAndDownloadPaper ==
    /\ pc = "call_paper"
    /\ IF ~HasAttr("gemini_paper_selector_model")
       THEN Raise(AttributeError("gemini_paper_selector_model"), <<"fail:args">>)
       ELSE Goto("get_abstracts", <<"start:paper">>, {})
    /\ UNCHANGED <<inputV, fs, paperV, scriptV, audioV, title>>

\* ------------------------------------------- paper_selector.py: stage 1
\* The stage's value reaches its caller: main.py:42-44 checks it (an
\* arxiv.Result is truthy) and that data/paper.pdf exists.
ReturnPaper(newFs, evs) ==
    IF entry = "main"
    THEN IF ~newFs[PaperPdf].exists
         THEN Exit1(evs \o <<"fail:paper">>)
         ELSE Goto("call_script", evs \o <<"ok:paper">>, {})
    ELSE Goto("returned", evs \o <<"ok:paper">>, {})

\* Mutant of GetAbstractsForDay: the check for an empty result list is
\* missing, and the empty list of abstracts goes to the selector.
GetAbstractsForDayUnchecked ==
    /\ pc = "get_abstracts"
    /\ \E n \in 0..MaxResults, apiError \in BOOLEAN :
        IF apiError
        THEN Raise(Err("Exception", "arxiv search failed", ""),
                   <<"call:search", "extfail:search", "fail:paper">>)
        ELSE Goto("select_paper",
                  <<"call:search">> \o (IF n = 0 THEN <<"search:empty">> ELSE <<>>), {})
    /\ UNCHANGED <<inputV, fs, paperV, scriptV, audioV, title>>

\* paper_selector.py:27-58  get_abstracts_for_day.  History: "search:empty"
\* records that the query returned no result.
GetAbstractsForDay ==
    /\ pc = "get_abstracts"
    /\ \E n \in 0..MaxResults, apiError \in BOOLEAN :
        IF apiError
        THEN Raise(Err("Exception", "arxiv search failed", ""),
                   <<"call:search", "extfail:search", "fail:paper">>)
        ELSE IF n = 0
        THEN Raise(Err("ValueError", "No AI papers returned from Arxiv", ""),
                   <<"call:search", "search:empty", "extfail:search", "fail:paper">>)
        ELSE Goto("select_paper", <<"call:search">>, {})
    /\ UNCHANGED <<inputV, fs, paperV, scriptV, audioV, title>>

\* What the selector model may answer: no text, empty text, text without a
\* URL, an https URL, an http URL whose identifier is not NNNN.NNNNN, and an
\* http URL of a paper.
SelectorResponses ==
    {"none", "empty", "no_url", "https_url", "http_short_id", "http_url"}

\* paper_selector.py:100-101  re.search(r"http?://arxiv\.org/pdf/[\d.]+(?:v\d+)?")
\* "http?" is "htt" and an optional "p": an https URL does not match.
SelectorPatternMatches(resp) == resp \in {"http_short_id", "http_url"}

\* paper_selector.py:115  re.search(r"arxiv\.org/pdf/(\d{4}\.\d{5}(?:v\d+)?)")
IdPatternMatches(url) == url \in {"http_url", "https_url"}

\* paper_selector.py:61-107  select_paper_for_podcast
SelectPaperForPodcast ==
    /\ pc = "select_paper"
    /\ \E resp \in SelectorResponses \cup {"api_error"} :
        IF resp = "api_error"
        THEN /\ Raise(Err("Exception", "selector model failed", ""),
                      <<"call:selector", "extfail:selector", "fail:paper">>)
             /\ UNCHANGED best_paper
        ELSE IF resp \in {"none", "empty"}
        THEN /\ Raise(Err("ValueError", "LLM returned empty response", ""),
                      <<"call:selector", "extfail:selector", "fail:paper">>)
             /\ UNCHANGED best_paper
        ELSE IF ~SelectorPatternMatches(resp)
        THEN /\ Raise(Err("ValueError", "No valid PDF URL found in response", ""),
                      <<"call:selector">>
                        \o (IF resp = "no_url" THEN <<"extfail:selector">> ELSE <<>>)
                        \o <<"fail:paper">>)
             /\ UNCHANGED best_paper
        ELSE /\ Goto("download", <<"call:selector">>, {})
             /\ best_paper' = resp
    /\ UNCHANGED <<inputV, fs, paper, scriptV, audioV, title>>

\* paper_selector.py:110-141  download_arxiv_pdf_from_url.  The SDK's
\* download_pdf writes whatever the server sent to output_paper_path; the
\* function returns the paper without looking at the file.
DownloadArxivPdfFromUrl ==
    /\ pc = "download"
    /\ IF ~IdPatternMatches(best_paper)
       THEN /\ Raise(Err("ValueError", "Could not find pdf to download", ""),
                     <<"fail:paper">>)
            /\ UNCHANGED <<fs, paper>>
       ELSE \E outcome \in {"lookup_error", "not_found", "download_error", "ok"} :
            IF outcome = "ok"
            THEN \E p \in DownloadedPapers :
                    /\ fs' = [fs EXCEPT ![PaperPdf] = File("download", p.payload)]
                    /\ paper' = p
                    /\ ReturnPaper(fs', <<"call:lookup", "call:download">>
                          \o (IF p.payload # PdfMagic
                              THEN <<"download:not_pdf", "extfail:download">> ELSE <<>>))
            ELSE /\ Raise(Err("ValueError", "Failed to download paper from arXiv ID", outcome),
                          <<"call:lookup">>
                            \o (IF outcome = "download_error" THEN <<"call:download">> ELSE <<>>)
                            \o <<"extfail:download", "fail:paper">>)
                 /\ UNCHANGED <<fs, paper>>
    /\ UNCHANGED <<inputV, best_paper, scriptV, audioV, title>>

\* ----------------------------------------- script_generator.py: stage 2
\* main.py:46-50
CallGenerateScript ==
    /\ pc = "call_script"
    /\ IF ~HasAttr("gemini_script_generator_model")
       THEN Raise(AttributeError("gemini_script_generator_model"), <<"fail:args">>)
       ELSE Goto("generate_script", <<"start:script">>, {})
    /\ UNCHANGED <<inputV, fs, paperV, scriptV, audioV, title>>

\* response.text of the script model: None, or a text of blanks (0) and
\* letters (1).
ScriptResponses == {NoText} \cup {Text(s) : s \in SeqsUpTo({Space, 1}, MaxScriptLen)}

\* Mutant of ScriptOf: the text is returned as the model gave it, without
\* the strip and the check for an empty script.
ScriptOfUnchecked(resp) == [raises |-> resp.none, script |-> resp]

\* script_generator.py:49-59: what generate_script_from_paper makes of
\* response.text: the RuntimeError of line 53 or 59, or the stripped text.
ScriptOf(resp) ==
    IF resp.none THEN [raises |-> TRUE, script |-> NoText]
    ELSE IF Strip(resp.chars) = <<>> THEN [raises |-> TRUE, script |-> NoText]
    ELSE [raises |-> FALSE, script |-> Text(Strip(resp.chars))]

\* bool(podcast_script) for a str
Truthy(text) == ~text.none /\ text.chars # <<>>

\* main.py:52-58: the pipeline's own check of the script, then the write of
\* data/podcast_script.txt.
ReturnScript(script, evs) ==
    IF entry = "main"
    THEN IF ~Truthy(script)
         THEN Exit1(evs \o <<"fail:script">>) /\ UNCHANGED fs
         ELSE /\ Goto("call_audio", evs \o <<"ok:script">>, {})
              /\ fs' = [fs EXCEPT ![ScriptTxt] = File("script", script.chars)]
    ELSE Goto("returned", evs \o <<"ok:script">>, {}) /\ UNCHANGED fs

\* Mutant of GenerateScriptFromPaper: a failed request to the script model
\* is issued a second time before the function gives up.
GenerateScriptFromPaperRetries ==
    /\ pc = "generate_script"
    /\ IF ~fs[PaperPdf].exists
       THEN /\ Raise(Err("FileNotFoundError", "paper_path.read_bytes()", ""),
                     <<"fail:script">>)
            /\ UNCHANGED <<fs, scriptV>>
       ELSE \/ /\ IF \E i \in 1..Len(events) : events[i] = "extfail:script_model"
                  THEN Raise(Err("Exception", "script model failed", ""),
                             <<"call:script_model", "extfail:script_model", "fail:script">>)
                  ELSE /\ Goto("generate_script",
                               <<"call:script_model", "extfail:script_model">>, {})
                       /\ UNCHANGED error
               /\ UNCHANGED <<fs, scriptV>>
            \/ \E resp \in ScriptResponses :
                /\ script_response' = resp
                /\ IF ScriptOf(resp).raises
                   THEN /\ Raise(Err("RuntimeError", "Gemini model returned no script", ""),
                                 <<"call:script_model", "response:script_model",
                                   "extfail:script_model", "fail:script">>)
                        /\ UNCHANGED <<fs, podcast_script>>
                   ELSE /\ podcast_script' = ScriptOf(resp).script
                        /\ ReturnScript(podcast_script',
                                        <<"call:script_model", "response:script_model">>)
    /\ UNCHANGED <<inputV, paperV, audioV, title>>

\* script_generator.py:28-66  generate_script_from_paper
GenerateScriptFromPaper ==
    /\ pc = "generate_script"
    /\ IF ~fs[PaperPdf].exists
       THEN /\ Raise(Err("FileNotFoundError", "paper_path.read_bytes()", ""),
                     <<"fail:script">>)
            /\ UNCHANGED <<fs, scriptV>>
       ELSE \/ /\ Raise(Err("Exception", "script model failed", ""),
                         <<"call:script_model", "extfail:script_model", "fail:script">>)
               /\ UNCHANGED <<fs, scriptV>>
            \/ \E resp \in ScriptResponses :
                /\ script_response' = resp
                /\ IF ScriptOf(resp).raises
                   THEN /\ Raise(Err("RuntimeError", "Gemini model returned no script", ""),
                                 <<"call:script_model", "response:script_model",
                                   "extfail:script_model", "fail:script">>)
                        /\ UNCHANGED <<fs, podcast_script>>
                   ELSE /\ podcast_script' = ScriptOf(resp).script
                        /\ ReturnScript(podcast_script',
                                        <<"call:script_model", "response:script_model">>)
    /\ UNCHANGED <<inputV, paperV, audioV, title>>

\* ------------------------------------------ audio_generator.py: stage 3
\* main.py:63-65: the keywords of the call.
AudioCallKeywords == {"podcast_script", "output_wav_path", "tts_model", "gemini_api_key"}

\* Mutant of GenerateAudioParams: the function takes the output path the
\* pipeline passes.
GenerateAudioParamsWithPath ==
    {"podcast_script", "output_wav_path", "tts_model", "gemini_api_key"}

\* audio_generator.py:82: the parameters of generate_audio_from_script.
GenerateAudioParams == {"podcast_script", "tts_model", "gemini_api_key"}

\* Mutant of BindsCall: a keyword that names no parameter is accepted.
BindsCallAnyKeyword(keywords, params) == params \subseteq keywords

\* Python binds a call's keywords to the parameters: a keyword that names no
\* parameter, or a parameter left without a value, is a TypeError.
BindsCall(keywords, params) == keywords \subseteq params /\ params \subseteq keywords

\* main.py:60-65
CallGenerateAudio ==
    /\ pc = "call_audio"
    /\ IF ~HasAttr("gemini_tts_model")
       THEN Raise(AttributeError("gemini_tts_model"), <<"fail:args">>)
       ELSE IF ~BindsCall(AudioCallKeywords, GenerateAudioParams)
       THEN Raise(Err("TypeError", "unexpected keyword argument", "output_wav_path"),
                  <<"start:audio", "fail:audio">>)
       ELSE Goto("tts_call", <<"start:audio">>, {})
    /\ UNCHANGED <<inputV, fs, paperV, scriptV, audioV, title>>

\* The MIME types a chunk may state, "none" for a chunk that states none.
Mimes == {"audio/x-wav", "audio/mpeg", "audio/L16;rate=24000"}
Payloads == {<<1>>, <<2, 3>>}

\* A chunk as _process_audio_stream reads it: whether candidates[0].content
\* .parts is there, parts[0].inline_data.data (empty when there is no inline
\* data), its mime_type, and whether the chunk has text.
Chunks ==
    {[parts |-> FALSE, data |-> <<>>, mime |-> "none", text |-> FALSE],
     [parts |-> TRUE, data |-> <<>>, mime |-> "none", text |-> TRUE],
     [parts |-> TRUE, data |-> <<>>, mime |-> "none", text |-> FALSE]}
    \cup {[parts |-> TRUE, data |-> d, mime |-> m, text |-> FALSE] :
            d \in Payloads, m \in Mimes \cup {"none"}}

\* Mutant of HandleChunk: the MIME type of every audio chunk replaces the
\* retained one.
HandleChunkLastMime(data, mime, chunk) ==
    IF chunk.parts /\ chunk.data # <<>>
    THEN [data |-> data \o chunk.data, mime |-> chunk.mime]
    ELSE [data |-> data, mime |-> mime]

\* audio_generator.py:67-76: one turn of the loop over the stream.
HandleChunk(data, mime, chunk) ==
    IF chunk.parts /\ chunk.data # <<>>
    THEN [data |-> data \o chunk.data,
          mime |-> IF mime = "none" THEN chunk.mime ELSE mime]
    ELSE [data |-> data, mime |-> mime]

\* mimetypes.guess_extension, "none" for None.
GuessExtension(mime) ==
    CASE mime = "audio/x-wav" -> ".wav"
      [] mime = "audio/mpeg" -> ".mp3"
      [] OTHER -> "none"

\* audio_generator.py:119-128: the suffix of the temporary file.
SuffixFor(mime) ==
    IF mime # "none"
    THEN IF GuessExtension(mime) # "none" THEN GuessExtension(mime) ELSE ".bin"
    ELSE ".bin"

\* Path(), which generate_audio_from_script returns on failure.
EmptyPath == "."

\* generate_audio_from_script returns.  main.py:63-70 drops the returned
\* value and looks for data/podcast.wav instead.
ReturnAudio(result, newFs, evs, lg) ==
    /\ audio_result' = result
    /\ LET done == evs \o <<IF result = Wav THEN "ok:audio" ELSE "fail:audio">> IN
       IF entry = "main"
       THEN IF ~newFs[Wav].exists
            THEN ExitWith(done, lg)
            ELSE Goto("compose_mp3", done \o <<"start:video">>, lg \cup {"audio_generated"})
       ELSE Goto("returned", done, lg)

\* audio_generator.py:62-66: the streaming request is issued.
StartAudioStream ==
    /\ pc = "tts_call"
    /\ Goto("tts_stream", <<"call:tts_stream">>, {})
    /\ UNCHANGED <<inputV, fs, paperV, scriptV, audioV, title>>

\* audio_generator.py:66-76: the stream yields one more chunk.
ProcessAudioChunk ==
    /\ pc = "tts_stream"
    /\ Len(consumed) < MaxChunks
    /\ \E chunk \in Chunks :
        /\ LET r == HandleChunk(full_audio_data, received_mime_type, chunk) IN
            /\ full_audio_data' = r.data
            /\ received_mime_type' = r.mime
        /\ consumed' = Append(consumed, chunk)
    /\ UNCHANGED <<inputV, pc, fs, exitCode, error, logs, events, paperV,
                   scriptV, temp_suffix, audio_result, title>>

\* The stream raises instead of ending: audio_generator.py:139-141 catches
\* whatever _process_audio_stream raises.
StreamError ==
    /\ pc = "tts_stream"
    /\ ReturnAudio(EmptyPath, fs, <<"extfail:tts_stream">>, {"audio_error"})
    /\ UNCHANGED <<inputV, fs, paperV, scriptV, consumed, full_audio_data,
                   received_mime_type, temp_suffix, title>>

\* Mutant of EndOfStream: the check for an empty accumulator is missing.
EndOfStreamUnguarded ==
    /\ pc = "tts_stream"
    /\ temp_suffix' = SuffixFor(received_mime_type)
    /\ Goto("save_raw", <<"eof:tts_stream">>, {})
    /\ UNCHANGED <<inputV, fs, paperV, scriptV, consumed, full_audio_data,
                   received_mime_type, audio_result, title>>

\* audio_generator.py:76-79 and 113-128: the stream ends.
EndOfStream ==
    /\ pc = "tts_stream"
    /\ IF full_audio_data = <<>>
       THEN /\ ReturnAudio(EmptyPath, fs, <<"eof:tts_stream", "extfail:tts_stream">>,
                           {"no_audio"})
            /\ UNCHANGED temp_suffix
       ELSE /\ temp_suffix' = SuffixFor(received_mime_type)
            /\ Goto("save_raw", <<"eof:tts_stream">>, {})
            /\ UNCHANGED audio_result
    /\ UNCHANGED <<inputV, fs, paperV, scriptV, consumed, full_audio_data,
                   received_mime_type, title>>

\* Mutant of SaveBinaryData: the OSError that _save_binary_data re-raises is
\* not caught by generate_audio_from_script.
SaveBinaryDataPropagates ==
    /\ pc = "save_raw"
    /\ \E ok \in BOOLEAN :
        IF ok
        THEN /\ fs' = [fs EXCEPT ![Temp] = File("tts_raw", full_audio_data)]
             /\ Goto("finalize", <<>>, {})
             /\ UNCHANGED audio_result
        ELSE /\ Raise(Err("OSError", "Failed to save file", ""),
                      <<"extfail:write", "fail:audio">>)
             /\ UNCHANGED <<fs, audio_result>>
    /\ UNCHANGED <<inputV, paperV, scriptV, consumed, full_audio_data,
                   received_mime_type, temp_suffix, title>>

\* audio_generator.py:12-23 and 130  _save_binary_data
SaveBinaryData ==
    /\ pc = "save_raw"
    /\ \E ok \in BOOLEAN :
        IF ok
        THEN /\ fs' = [fs EXCEPT ![Temp] = File("tts_raw", full_audio_data)]
             /\ Goto("finalize", <<>>, {})
             /\ UNCHANGED audio_result
        ELSE /\ ReturnAudio(EmptyPath, fs, <<"extfail:write">>, {"audio_error"})
             /\ UNCHANGED fs
    /\ UNCHANGED <<inputV, paperV, scriptV, consumed, full_audio_data,
                   received_mime_type, temp_suffix, title>>

\* How an ffmpeg run ends: exit status 0, a non-zero exit status, no ffmpeg
\* on the PATH, any other exception of subprocess.run.
FfmpegOutcomes == {"ok", "nonzero", "notfound", "other"}

\* audio_generator.py:132-137 with _convert_audio_with_ffmpeg (26-54).  The
\* rename of line 133 and the unlink of line 137 are file system calls that
\* may raise OSError; the handler of lines 139-141 catches it.
FinalizeWav ==
    /\ pc = "finalize"
    /\ IF temp_suffix = ".wav"
       THEN \E renamed \in BOOLEAN :
            IF renamed
            THEN /\ fs' = [fs EXCEPT ![Wav] = File("rename", fs[Temp].data), ![Temp] = NoFile]
                 /\ ReturnAudio(Wav, fs', <<>>, {})
            ELSE /\ ReturnAudio(EmptyPath, fs, <<"extfail:rename">>, {"audio_error"})
                 /\ UNCHANGED fs
       ELSE \E outcome \in FfmpegOutcomes, unlinked \in BOOLEAN :
            IF outcome = "ok"
            THEN IF unlinked
                 THEN /\ fs' = [fs EXCEPT ![Wav] = File("ffmpeg", fs[Temp].data),
                                          ![Temp] = NoFile]
                      /\ ReturnAudio(Wav, fs', <<"call:ffmpeg_wav">>, {})
                 ELSE /\ fs' = [fs EXCEPT ![Wav] = File("ffmpeg", fs[Temp].data)]
                      /\ ReturnAudio(EmptyPath, fs', <<"call:ffmpeg_wav", "extfail:unlink">>,
                                     {"audio_error"})
            ELSE /\ ReturnAudio(EmptyPath, fs, <<"call:ffmpeg_wav", "extfail:ffmpeg_wav">>,
                                {"audio_error"})
                 /\ UNCHANGED fs
    /\ UNCHANGED <<inputV, paperV, scriptV, consumed, full_audio_data,
                   received_mime_type, temp_suffix, title>>

\* ------------------------------------------- media_composer.py: stage 4
\* The RuntimeError each except clause of the two converters raises.
EncoderError(what, outcome) ==
    CASE outcome = "nonzero" -> Err("RuntimeError", what \o " failed", "stderr")
      [] outcome = "notfound" ->
            Err("RuntimeError", "FFmpeg is not installed or not in system PATH.", "")
      [] OTHER -> Err("RuntimeError", "An unexpected error occurred during " \o what, "exception")

\* History: how the failed encoder run ended.
EncoderEvent(outcome) ==
    CASE outcome = "nonzero" -> "encoder:nonzero"
      [] outcome = "notfound" -> "encoder:notfound"
      [] OTHER -> "encoder:other"

\* compose_final_podcast_video returns: media_composer.py:18, then
\* main.py:76-80.
ReturnVideo(evs) ==
    IF entry = "main"
    THEN Goto("upload", evs \o <<"ok:video", "start:upload">>,
              {"composition_completed", "video_composed"})
    ELSE Goto("returned", evs \o <<"ok:video">>, {"composition_completed"})

\* Mutant of ConvertWavToMp3: a failed conversion is logged and the composer
\* goes on to the second invocation.
ConvertWavToMp3ContinuesOnFailure ==
    /\ pc = "compose_mp3"
    /\ \E outcome \in FfmpegOutcomes :
        /\ outcome = "ok" => fs[Wav].exists
        /\ IF outcome = "ok"
           THEN /\ fs' = [fs EXCEPT ![Mp3] = File("ffmpeg", fs[Wav].data)]
                /\ Goto("compose_mp4", <<"call:ffmpeg_mp3">>, {})
           ELSE /\ Goto("compose_mp4",
                        <<"call:ffmpeg_mp3", "extfail:ffmpeg_mp3", EncoderEvent(outcome)>>, {})
                /\ UNCHANGED fs
    /\ UNCHANGED <<inputV, paperV, scriptV, audioV, title>>

\* media_composer.py:12-14 and 21-52  convert_wav_to_mp3.  The encoder
\* cannot exit with 0 without its input.
ConvertWavToMp3 ==
    /\ pc = "compose_mp3"
    /\ \E outcome \in FfmpegOutcomes :
        /\ outcome = "ok" => fs[Wav].exists
        /\ IF outcome = "ok"
           THEN /\ fs' = [fs EXCEPT ![Mp3] = File("ffmpeg", fs[Wav].data)]
                /\ Goto("compose_mp4", <<"call:ffmpeg_mp3">>, {})
           ELSE /\ Raise(EncoderError("FFmpeg WAV to MP3 conversion", outcome),
                         <<"call:ffmpeg_mp3", "extfail:ffmpeg_mp3", EncoderEvent(outcome),
                           "fail:video">>)
                /\ UNCHANGED fs
    /\ UNCHANGED <<inputV, paperV, scriptV, audioV, title>>

\* media_composer.py:15-18 and 55-91  create_video_from_mp3_and_image
CreateVideoFromMp3AndImage ==
    /\ pc = "compose_mp4"
    /\ \E outcome \in FfmpegOutcomes :
        /\ outcome = "ok" => fs[Mp3].exists /\ fs[Bg].exists
        /\ IF outcome = "ok"
           THEN /\ fs' = [fs EXCEPT ![Mp4] = File("ffmpeg", fs[Mp3].data)]
                /\ ReturnVideo(<<"call:ffmpeg_mp4">>)
           ELSE /\ Raise(EncoderError("FFmpeg MP4 creation", outcome),
                         <<"call:ffmpeg_mp4", "extfail:ffmpeg_mp4", EncoderEvent(outcome),
                           "fail:video">>)
                /\ UNCHANGED fs
    /\ UNCHANGED <<inputV, paperV, scriptV, audioV, title>>

\* ----------------------------------------- youtube_uploader.py: stage 5
\* " (AI Podcast)"
Suffix == <<Space, -2, -3, -4, Space, -5, -6, -7, -8, -9, -10, -11, -12>>
Ellipsis == <<Dot, Dot, Dot>>

\* Mutant of UploadTitle: only a title longer than max_chars is cut.
UploadTitleStrictThreshold(p) ==
    LET paper_title == Strip(RawTitle(p))
        shown == IF Len(paper_title) > max_chars
                 THEN Prefix(paper_title, TruncateAt) \o Ellipsis
                 ELSE paper_title
    IN  Strip(shown \o Suffix)

\* youtube_uploader.py:27-31
UploadTitle(p) ==
    LET paper_title == Strip(RawTitle(p))
        shown == IF Len(paper_title) >= max_chars
                 THEN Prefix(paper_title, TruncateAt) \o Ellipsis
                 ELSE paper_title
    IN  Strip(shown \o Suffix)

\* youtube_uploader.py:83-86: the one insert request is driven by next_chunk
\* until the platform answers with a response (or a call raises).  History:
\* one "poll:upload" for every call of next_chunk.
NextChunks(polls) == [i \in 1..polls |-> "poll:upload"]

\* youtube_uploader.py:20-100  upload_video_to_youtube; main.py:85-86 logs the
\* completion once it has returned.  MediaFileUpload opens the video file.
\* History: "call:upload" is the insert request of line 80.
UploadVideoToYoutube ==
    /\ pc = "upload"
    /\ title' = UploadTitle(paper)
    /\ \E outcome \in {"ok", "http_error", "error"}, polls \in 1..MaxPolls :
        /\ outcome = "ok" => fs[Mp4].exists
        /\ IF outcome = "ok"
           THEN IF entry = "main"
                THEN Goto("done", <<"call:upload">> \o NextChunks(polls) \o <<"ok:upload">>,
                          {"video_uploaded", "pipeline_completed"})
                ELSE Goto("returned", <<"call:upload">> \o NextChunks(polls) \o <<"ok:upload">>,
                          {"video_uploaded"})
           ELSE Raise(Err(IF outcome = "http_error" THEN "HttpError" ELSE "Exception",
                          "upload failed", ""),
                      <<"call:upload">> \o NextChunks(polls)
                        \o <<"extfail:upload", "fail:upload">>)
    /\ UNCHANGED <<inputV, fs, paperV, scriptV, audioV>>

\* ------------------------------------------------------------------- Next
Next ==
    \/ CheckBackgroundImage
    \/ SetUp
    \/ CallFindAndDownloadPaper
    \/ GetAbstractsForDay
    \/ SelectPaperForPodcast
    \/ DownloadArxivPdfFromUrl
    \/ CallGenerateScript
    \/ GenerateScriptFromPaper
    \/ CallGenerateAudio
    \/ StartAudioStream
    \/ ProcessAudioChunk
    \/ StreamError
    \/ EndOfStream
    \/ SaveBinaryData
    \/ FinalizeWav
    \/ ConvertWavToMp3
    \/ CreateVideoFromMp3AndImage
    \/ UploadVideoToYoutube

Spec == Init /\ [][Next]_vars

\* The interpreter runs the pipeline to its end: no step waits on another
\* process of this program.
FairSpec == Spec /\ WF_vars(Next)

\* ============================================================== properties
Has(e) == \E i \in 1..Len(events) : events[i] = e
Before(a, b) ==
    \A i \in 1..Len(events) : events[i] = b => \E j \in 1..(i - 1) : events[j] = a

StartEvents == <<"start:paper", "start:script", "start:audio", "start:video", "start:upload">>
OkEvents == <<"ok:paper", "ok:script", "ok:audio", "ok:video", "ok:upload">>
FailEvents ==
    {"fail:background", "fail:setup", "fail:args", "fail:paper", "fail:script",
     "fail:audio", "fail:video", "fail:upload"}
ExtFailEvents ==
    {"extfail:search", "extfail:selector", "extfail:download", "extfail:script_model",
     "extfail:tts_stream", "extfail:write", "extfail:rename", "extfail:ffmpeg_wav",
     "extfail:unlink", "extfail:ffmpeg_mp3", "extfail:ffmpeg_mp4", "extfail:upload"}

IsStart(e) == \E k \in 1..Len(StartEvents) : StartEvents[k] = e
Failed == \E i \in 1..Len(events) : events[i] \in FailEvents
FirstFailure == CHOOSE i \in 1..Len(events) :
    events[i] \in FailEvents /\ \A j \in 1..(i - 1) : events[j] \notin FailEvents

\* C1: in a run of the pipeline the stages are invoked in the order paper,
\* script, audio, video, upload, none twice and none skipped, and stage k+1
\* is invoked only after stage k has returned its artifact.
C1_StagesInOrder ==
    entry = "main" =>
        LET starts == SelectSeq(events, IsStart) IN
        /\ Len(starts) <= Len(StartEvents)
        /\ \A k \in 1..Len(starts) : starts[k] = StartEvents[k]
        /\ \A k \in 1..(Len(StartEvents) - 1) : Before(OkEvents[k], StartEvents[k + 1])

\* C1 witness: the pipeline has invoked the third stage, after the first two
\* returned their artifacts.
C1_Witness ==
    /\ entry = "main"
    /\ Has("ok:paper") /\ Has("ok:script") /\ Has("start:audio")

\* C2: a run of the pipeline in which a stage (or the check of the
\* background image) has failed has exited with a non-zero status, has
\* invoked no stage after the failure, and has not logged the completion.
C2_FailureExits ==
    (entry = "main" /\ Failed) =>
        /\ pc = "exited"
        /\ exitCode # 0
        /\ \A i \in 1..Len(events) : i > FirstFailure => ~IsStart(events[i])
        /\ "pipeline_completed" \notin logs

\* C2 witness: the script stage has raised and the process has exited.
C2_Witness ==
    /\ entry = "main"
    /\ Has("fail:script")
    /\ pc = "exited"

\* C3: a run of the pipeline in which the background image is there, the
\* date parses and no external collaborator has failed ends with the
\* completion logged and the WAV, MP3 and MP4 files on disk, not with an
\* error exit.
C3_PipelineCompletes ==
    ( /\ entry = "main"
      /\ pc \in {"exited", "done"}
      /\ fs[Bg].exists
      /\ paper_date_valid
      /\ \A i \in 1..Len(events) : events[i] \notin ExtFailEvents )
    => ( /\ pc = "done"
         /\ "pipeline_completed" \in logs
         /\ fs[Wav].exists /\ fs[Mp3].exists /\ fs[Mp4].exists )

\* A text that is absent, empty or made of blanks only.
Blank(text) == text.none \/ \A i \in 1..Len(text.chars) : text.chars[i] = Space

\* C4: when the script model answers with no text, an empty text or blanks
\* only, generate_script_from_paper fails (it raises and returns no script),
\* and the pipeline never invokes the audio stage with such a script.
C4_BlankScriptRejected ==
    /\ (Has("response:script_model") /\ Blank(script_response)) =>
            /\ pc \in {"raised", "exited"}
            /\ error.type = "RuntimeError"
            /\ ~Has("ok:script")
            /\ podcast_script = NoText
    /\ (entry = "main" /\ Has("start:audio")) => ~Blank(podcast_script)

\* C4 witness: in a pipeline run the script model has answered with a blank
\* and the run has ended.
C4_Witness ==
    /\ entry = "main"
    /\ Has("response:script_model")
    /\ script_response = Text(<<Space>>)
    /\ pc = "exited"

\* A chunk that carries inline binary audio.
CarriesAudio(chunk) == chunk.parts /\ chunk.data # <<>>
StatesMime(chunk) == chunk.mime # "none"
AudioChunks(cs) == SelectSeq(cs, CarriesAudio)

\* C5: when the speech stream has ended and none of its chunks carried
\* audio, generate_audio_from_script has returned the empty path, and this
\* run has written neither the temporary raw audio file nor the WAV file.
C5_NoAudioReportsFailure ==
    (Has("eof:tts_stream") /\ AudioChunks(consumed) = <<>>) =>
        /\ audio_result = EmptyPath
        /\ "no_audio" \in logs
        /\ ~fs[Temp].exists
        /\ fs[Wav].origin \in {"none", "leftover"}

\* C5 witness: a stream of text and malformed chunks has ended and the
\* function has returned.
C5_Witness ==
    /\ Has("eof:tts_stream")
    /\ Len(consumed) >= 2
    /\ AudioChunks(consumed) = <<>>
    /\ \E i \in 1..Len(consumed) : consumed[i].text
    /\ pc = "returned"

RECURSIVE ConcatPayloads(_)
ConcatPayloads(cs) ==
    IF cs = <<>> THEN <<>>
    ELSE (IF CarriesAudio(Head(cs)) THEN Head(cs).data ELSE <<>>) \o ConcatPayloads(Tail(cs))

MimeOfFirstAudio(cs) ==
    IF AudioChunks(cs) = <<>> THEN "none" ELSE AudioChunks(cs)[1].mime

FirstStatedMime(cs) ==
    LET stated == SelectSeq(AudioChunks(cs), StatesMime)
    IN  IF stated = <<>> THEN "none" ELSE stated[1].mime

\* C7 as claimed: once the stream has been consumed the accumulator is the
\* concatenation, in arrival order, of the payloads of the chunks that
\* carried audio, and the retained MIME type is that of the first chunk
\* that carried audio.
C7_FirstAudioChunkMime ==
    Has("eof:tts_stream") =>
        /\ full_audio_data = ConcatPayloads(consumed)
        /\ received_mime_type = MimeOfFirstAudio(consumed)

\* C7 as amended: while and after the stream is consumed the accumulator is
\* the concatenation, in arrival order, of the payloads of the chunks that
\* carried audio, and the retained MIME type is the first MIME type stated
\* by a chunk that carried audio: that of the first such chunk when it
\* states one.  Chunks without audio change neither.
C7_FirstStatedMime ==
    Has("call:tts_stream") =>
        /\ full_audio_data = ConcatPayloads(consumed)
        /\ received_mime_type = FirstStatedMime(consumed)
        /\ MimeOfFirstAudio(consumed) # "none" =>
                received_mime_type = MimeOfFirstAudio(consumed)

\* C7 witness: the stream has ended after two audio chunks with a chunk
\* without audio between them; the first audio chunk stated no MIME type.
C7_Witness ==
    /\ Has("eof:tts_stream")
    /\ Len(consumed) = 3
    /\ CarriesAudio(consumed[1]) /\ ~CarriesAudio(consumed[2]) /\ CarriesAudio(consumed[3])
    /\ consumed[1].data # consumed[3].data
    /\ ~StatesMime(consumed[1]) /\ StatesMime(consumed[3])

\* "(AI Podcast)": the suffix as it ends every upload title.
SuffixText == Tail(Suffix)
EndsWithSuffix(t) ==
    /\ Len(t) >= Len(SuffixText)
    /\ SubSeq(t, Len(t) - Len(SuffixText) + 1, Len(t)) = SuffixText

\* What an upload title shows of the paper's title: the text before the
\* suffix and the blank that separates them.
ShownTitle(t) == Strip(SubSeq(t, 1, Len(t) - Len(SuffixText)))

CutTitle(t) == SubSeq(t, 1, TruncateAt) \o Ellipsis

\* C8 as claimed: the upload title is at most max_chars characters plus the
\* suffix; a stripped title longer than the budget of max_chars characters
\* is cut to its first 80 characters and "..." before the suffix, and a
\* title within the budget is kept unchanged before the suffix.
C8_CutBeyondBudget ==
    Has("call:upload") =>
        LET t == Strip(RawTitle(paper)) IN
        /\ Len(title) <= max_chars + Len(Suffix)
        /\ EndsWithSuffix(title)
        /\ Len(t) > max_chars => ShownTitle(title) = CutTitle(t)
        /\ Len(t) <= max_chars => ShownTitle(title) = t

\* C8 as amended: the upload title is at most max_chars characters plus the
\* suffix; a stripped title of max_chars characters or more is cut to its
\* first 80 characters and "..." before the suffix, and a title of fewer
\* than max_chars characters is kept unchanged before the suffix.
C8_CutFromBudget ==
    Has("call:upload") =>
        LET t == Strip(RawTitle(paper)) IN
        /\ Len(title) <= max_chars + Len(Suffix)
        /\ EndsWithSuffix(title)
        /\ Len(t) >= max_chars =>
                ShownTitle(title) = CutTitle(t) /\ title = CutTitle(t) \o Suffix
        /\ Len(t) < max_chars => ShownTitle(title) = t
        /\ (0 < Len(t) /\ Len(t) < max_chars) => title = t \o Suffix

\* C8 witness: a title of exactly max_chars characters, with a blank before
\* it, has been given its upload title.
C8_Witness ==
    /\ Has("call:upload")
    /\ paper.lead = 1
    /\ Len(Strip(RawTitle(paper))) = max_chars

\* C9: when the downloaded payload does not start with the PDF magic number
\* the file is deleted and the download step fails, so the script stage is
\* never started on it.
C9_NonPdfRejected ==
    Has("download:not_pdf") =>
        /\ ~fs[PaperPdf].exists
        /\ Has("fail:paper") /\ ~Has("ok:paper")
        /\ ~Has("start:script")

\* C10: the MP4 invocation of the encoder comes after the MP3 invocation and
\* only when that one exited with 0; when an invocation exits non-zero or
\* the encoder is not found the composer has raised a RuntimeError that
\* carries the diagnostic, and has not logged the completed composition.
C10_EncoderOrderAndFailure ==
    /\ Before("call:ffmpeg_mp3", "call:ffmpeg_mp4")
    /\ Has("call:ffmpeg_mp4") => (~Has("extfail:ffmpeg_mp3") /\ fs[Mp3].origin = "ffmpeg")
    /\ (Has("extfail:ffmpeg_mp3") \/ Has("extfail:ffmpeg_mp4")) =>
            /\ pc \in {"raised", "exited"}
            /\ error.type = "RuntimeError"
            /\ "composition_completed" \notin logs
            /\ Has("encoder:nonzero") => error.detail = "stderr"
            /\ Has("encoder:notfound") =>
                    error.msg = "FFmpeg is not installed or not in system PATH."

\* C10 witness: the first invocation exited with 0, the second exited
\* non-zero, and the composer has raised.
C10_Witness ==
    /\ entry = "compose_final_podcast_video"
    /\ Has("call:ffmpeg_mp3") /\ Has("call:ffmpeg_mp4")
    /\ Has("encoder:nonzero")
    /\ pc = "raised"

\* C11: when the query for the date has returned no result,
\* find_and_download_paper has failed with an error (in the pipeline: the
\* run has exited with status 1), the selector model has not been called,
\* no lookup or download has been attempted, and data/paper.pdf is as it
\* was before the call.
C11_NoCandidatesFails ==
    Has("search:empty") =>
        /\ pc \in {"raised", "exited"}
        /\ error = Err("ValueError", "No AI papers returned from Arxiv", "")
        /\ entry = "main" => exitCode = 1
        /\ Has("fail:paper") /\ ~Has("ok:paper")
        /\ ~Has("call:selector")
        /\ ~Has("call:lookup") /\ ~Has("call:download")
        /\ fs[PaperPdf] \in {NoFile, LeftoverOf(PaperPdf)}
        /\ best_paper = "none" /\ paper = NoPaper

\* C11 witness: find_and_download_paper, called on its own, has raised after
\* a query without results.
C11_Witness ==
    /\ entry = "find_and_download_paper"
    /\ Has("search:empty")
    /\ pc = "raised"

\* The requests the program issues to its collaborators.
CallEvents ==
    {"call:search", "call:selector", "call:lookup", "call:download",
     "call:script_model", "call:tts_stream", "call:ffmpeg_wav", "call:ffmpeg_mp3",
     "call:ffmpeg_mp4", "call:upload"}

Count(e) == Len(SelectSeq(events, LAMBDA x : x = e))

\* A request that failed, or a stage that raised or returned its failure
\* value.  (A payload that is not a PDF is not among them: the download
\* request itself succeeded.)
IsFailure(i) ==
    \/ events[i] \in FailEvents
    \/ /\ events[i] \in ExtFailEvents
       /\ ~(i > 1 /\ events[i - 1] = "download:not_pdf")

\* C12: in a run every request (search, selector model, lookup and
\* download of the PDF, script model, speech stream, each encoder
\* invocation, upload) is issued at most once, and after a failure no
\* request is issued and the upload is not polled again.
C12_NoRetries ==
    /\ \A c \in CallEvents : Count(c) <= 1
    /\ \A i \in 1..Len(events) :
            IsFailure(i) =>
                \A j \in (i + 1)..Len(events) :
                    events[j] \notin CallEvents \cup {"poll:upload"}

\* C12 witness: a run of the pipeline has issued the search, the selector
\* request, the download and the script request; the script request failed
\* and the run has ended.
C12_Witness ==
    /\ entry = "main"
    /\ Has("call:search") /\ Has("call:selector") /\ Has("call:download")
    /\ Has("call:script_model") /\ Has("extfail:script_model")
    /\ ~Has("response:script_model")
    /\ pc = "exited"

\* A retained MIME type that announces headerless PCM with its sample rate
\* (and bit depth), not a container.
RawPcm(mime) == mime = "audio/L16;rate=24000"

\* C13: when generate_audio_from_script has returned and the accumulated
\* audio was raw PCM of N bytes, its output is data/podcast.wav, written by
\* the program as a synthesized header of 44 bytes followed by the payload:
\* 44 + N bytes in all.  (The header's chunk_size, byte_rate and block_align
\* are fields of that header.)
C13_RawPcmGetsHeader ==
    ( /\ audio_result # "none"
      /\ Has("eof:tts_stream")
      /\ full_audio_data # <<>>
      /\ RawPcm(received_mime_type)
      /\ ~Has("extfail:write") )
    => ( /\ audio_result = Wav
         /\ fs[Wav].exists
         /\ fs[Wav].origin = "header"
         /\ Len(fs[Wav].data) = 44 + Len(full_audio_data) )

\* What can fail inside generate_audio_from_script.
AudioFailures ==
    {"extfail:tts_stream", "extfail:write", "extfail:rename", "extfail:ffmpeg_wav",
     "extfail:unlink"}

AudioFailed == \E i \in 1..Len(events) : events[i] \in AudioFailures

\* C14: once generate_audio_from_script runs it either is still running or
\* has returned: it never raises to its caller.  It has returned the empty
\* path whenever something failed inside it, and it has returned
\* data/podcast.wav only when the stream yielded audio, nothing failed, and
\* the file holds that audio, put there by the rename or by a conversion
\* that exited with 0.
C14_AudioNeverRaises ==
    Has("call:tts_stream") =>
        /\ audio_result = "none" => pc \in {"tts_stream", "save_raw", "finalize"}
        /\ audio_result # "none" =>
                /\ audio_result \in {EmptyPath, Wav}
                /\ entry = "generate_audio_from_script" =>
                        pc = "returned" /\ error = NoError /\ exitCode = 0
                /\ AudioFailed => audio_result = EmptyPath
                /\ audio_result = Wav =>
                        /\ full_audio_data # <<>>
                        /\ Has("eof:tts_stream")
                        /\ fs[Wav].exists
                        /\ fs[Wav].data = full_audio_data
                        /\ IF temp_suffix = ".wav"
                           THEN fs[Wav].origin = "rename" /\ ~Has("call:ffmpeg_wav")
                           ELSE fs[Wav].origin = "ffmpeg" /\ Has("call:ffmpeg_wav")

\* C14 witness: the function, called on its own, has returned the empty
\* path after the stream yielded audio and the conversion failed.
C14_Witness ==
    /\ entry = "generate_audio_from_script"
    /\ full_audio_data # <<>>
    /\ Has("extfail:ffmpeg_wav")
    /\ audio_result = EmptyPath
    /\ pc = "returned"

====
